---- MODULE Spec2Model ----
(***************************************************************************)
(* Model of the two "chat with your PDF" Flask back ends:                  *)
(*   gemini_version/app.py  (Firestore + Firebase Storage + Vertex AI)     *)
(*   groq_version/app.py    (PostgreSQL/pgvector + local files + Groq)     *)
(* A process runs one of the two applications (variable variant).  Every   *)
(* action is one HTTP request handled from its first line to its response; *)
(* the outcome of every external call (storage, database, embedding        *)
(* provider, generative-text provider) is an input of the action.          *)
(*                                                                         *)
(* Text is a sequence of tokens: 0 is a newline, a positive number is a    *)
(* run of printable text about one chunk long.  A file name is a sequence  *)
(* of characters.  An embedding vector is one integer coordinate.          *)
(***************************************************************************)
EXTENDS Integers, Sequences, FiniteSets, TLC

VARIABLES variant, model, embedding_model,
          nextId, files, documents, embeddings, last

vars == <<variant, model, embedding_model,
          nextId, files, documents, embeddings, last>>

(* ------------------------------ bounds -------------------------------- *)

\* uploads that get as far as uuid.uuid4() in one run of the process
MaxDocs == 2
\* the embedding loop can be made to fail at chunk 0 .. MaxFailAt
MaxFailAt == 2

(* ------------------------- program constants -------------------------- *)

\* limit=5 of find_nearest, LIMIT 5 of the SQL query
TopK == 5
\* LIMIT 10 of summarize's query (groq)
SummarizeLimit == 10
\* LIMIT 12 of generate_flashcards' query (groq)
FlashcardLimit == 12

(* ------------------------------ inputs -------------------------------- *)

\* Python's None where a text is expected (text tokens are never negative)
None == <<-1>>
NL == 0

a_pdf == <<"a", ".", "p", "d", "f">>
a_txt == <<"a", ".", "t", "x", "t">>

\* the filename of the uploaded form field; <<>> is the empty filename
Filenames == {<<>>, a_pdf, a_txt}

\* what the uploaded bytes are: a PDF given by the text of each of its
\* pages, or bytes PdfReader cannot read
Corrupt == [readable |-> FALSE, pages |-> <<>>]
Pdf(pages) == [readable |-> TRUE, pages |-> pages]
Contents ==
    { Corrupt,
      Pdf(<< <<>>, <<>> >>),              \* two pages without a text layer
      Pdf(<< <<1, 2, 3>>, <<3, 2, 1>> >>) \* two pages of text, six chunks
    }

\* the request's file field: absent, or a file with a name and contents
NoFile == [present |-> FALSE, filename |-> <<>>, content |-> Corrupt]
Uploads == {NoFile} \cup
           [present : {TRUE}, filename : Filenames, content : Contents]

\* the external call that fails during the request (the first one to fail
\* decides the request: every handler stops at its first exception).
\* "embed"/"insert" fail at chunk number at.
NoFault == [kind |-> "none", at |-> 0]
Faults == {[kind |-> k, at |-> 0] :
              k \in {"none", "blob", "db", "read", "commit", "update", "llm"}}
          \cup [kind : {"embed", "insert"}, at : 0 .. MaxFailAt]

\* the 'question' of the JSON body: missing, empty, or a text
Questions == {None, <<>>, <<2>>}

DocIds == 0 .. MaxDocs - 1
\* the ids a client can put in a URL: those handed out, and one never issued
UrlIds == DocIds \cup {MaxDocs}

(* ----------------------------- helpers -------------------------------- *)

RECURSIVE Concat(_)
\* the concatenation of a sequence of sequences
Concat(ss) == IF ss = <<>> THEN <<>> ELSE Head(ss) \o Concat(Tail(ss))

RECURSIVE Join(_, _)
\* sep.join(ss)
Join(sep, ss) ==
    IF ss = <<>> THEN <<>>
    ELSE IF Len(ss) = 1 THEN ss[1]
    ELSE ss[1] \o sep \o Join(sep, Tail(ss))

\* Python truthiness of an Optional[str]
Truthy(t) == t # None /\ t # <<>>

NotEmptyPage(p) == p # <<>>

\* str.endswith('.pdf')
EndsWithPdf(name) ==
    /\ Len(name) >= 4
    /\ SubSeq(name, Len(name) - 3, Len(name)) = <<".", "p", "d", "f">>

\* RecursiveCharacterTextSplitter(chunk_size=1000, chunk_overlap=100)
\* .split_text: the printable runs in order, whitespace-only pieces dropped
IsBlock(tok) == tok # NL
split_text(text) == [i \in 1 .. Len(SelectSeq(text, IsBlock)) |->
                        << SelectSeq(text, IsBlock)[i] >>]

RECURSIVE SumSq(_)
SumSq(t) == IF t = <<>> THEN 0 ELSE Head(t) * Head(t) + SumSq(Tail(t))
\* the embedding provider: a text to its vector (one coordinate)
Embed(t) == SumSq(t) % 5

\* Euclidean / <-> distance of two vectors
Distance(u, v) == IF u >= v THEN u - v ELSE v - u

(* ------------------------------ stores -------------------------------- *)

DocExists(doc_id) == \E d \in documents : d.id = doc_id
DocRecord(doc_id) == CHOOSE d \in documents : d.id = doc_id

EmbeddingsOf(doc_id) == {e \in embeddings : e.document_id = doc_id}

\* the response of the request before the first one
NoRequest ==
    [ep |-> "none", doc |-> -1, code |-> 0, body |-> "none",
     unhandled |-> FALSE, failed |-> "none", llm |-> 0, emb |-> 0,
     wrote |-> {}, present |-> FALSE, fname |-> <<>>,
     xcase |-> "none", text |-> None,
     chunked |-> FALSE, q |-> None, ctx |-> {}, reply |-> <<>>,
     cards |-> "none", ncards |-> 0, at |-> -1]

(* -------------------- gemini_version: ingestion ----------------------- *)

\* f"uploads/{user_id}/{doc_id}/{pdf_file.filename}": the user id is a
\* constant and the name is never read back, so a path is the document id
\* in it
StoragePath(doc_id, filename) == doc_id

\* full_text of extract_text_from_pdf: every page's text followed by "\n"
GeminiFullText(pages) == Concat([i \in 1 .. Len(pages) |-> pages[i] \o <<NL>>])

\* which of the spec's cases a PDF with these pages is
PagesCase(pages) ==
    IF pages = <<>> THEN "nopages"
    ELSE IF \A i \in 1 .. Len(pages) : pages[i] = <<>> THEN "notext"
    ELSE "text"

\* extract_text_from_pdf(document_id) over the stores docs and fs:
\* the case met and the value returned
GeminiExtract(docs, fs, doc_id, fault) ==
    IF fault.kind = "db" THEN [xcase |-> "dberror", text |-> None]
    ELSE IF ~ \E d \in docs : d.id = doc_id
    THEN [xcase |-> "nodoc", text |-> None]
    ELSE LET path == (CHOOSE d \in docs : d.id = doc_id).storage_path IN
         IF fault.kind = "read" \/ ~ \E f \in fs : f.path = path
         THEN [xcase |-> "missing", text |-> None]
         ELSE LET content == (CHOOSE f \in fs : f.path = path).content IN
              IF ~ content.readable
              THEN [xcase |-> "unreadable", text |-> None]
              ELSE [xcase |-> PagesCase(content.pages),
                    text |-> GeminiFullText(content.pages)]

\* the chunks whose batch.set ran before the loop ended or raised
StagedChunks(n, fault) ==
    IF fault.kind = "embed" /\ fault.at < n THEN fault.at ELSE n

\* embedding_model.get_embeddings calls made by the loop
EmbedCalls(n, fault) ==
    IF fault.kind = "embed" /\ fault.at < n THEN fault.at + 1 ELSE n

\* mutant of BatchCommitted: the batch is committed in a finally clause
BatchCommitted_Finally(n, fault) == fault.kind # "commit"

\* batch.commit() is reached and succeeds
BatchCommitted(n, fault) ==
    /\ ~ (fault.kind = "embed" /\ fault.at < n)
    /\ fault.kind # "commit"

\* mutant of StatusUpdated: the status is updated before the loop, not
\* after the commit
StatusUpdated_BeforeCommit(n, fault) == fault.kind # "update"

\* doc_ref.update({'status': 'processed'}) is reached and succeeds
StatusUpdated(n, fault) ==
    BatchCommitted(n, fault) /\ fault.kind # "update"

\* the records batch.set staged for chunks 0 .. k-1 of the document
BatchRecords(doc_id, chunks, k) ==
    {[document_id |-> doc_id, key |-> i - 1, content |-> chunks[i],
      embedding |-> Embed(chunks[i])] : i \in 1 .. k}

\* mutant of SetAll: the commit replaces the collection by the batch
SetAll_Replace(embs, recs) == recs

\* Firestore set(): a record replaces the one with the same reference
SetAll(embs, recs) ==
    {e \in embs : ~ \E r \in recs :
                      r.document_id = e.document_id /\ r.key = e.key}
    \cup recs

\* create_and_store_embeddings(document_id, text_content): the stores
\* afterwards, the provider calls made and the call that failed
GeminiCreateAndStore(docs, embs, doc_id, text, fault) ==
    IF ~ embedding_model
    THEN [documents |-> docs, embeddings |-> embs, emb |-> 0,
          failed |-> "none", chunked |-> FALSE, wrote |-> {}]
    ELSE LET chunks == split_text(text)
             n == Len(chunks)
             committed == BatchCommitted(n, fault)
             updated == StatusUpdated(n, fault)
         IN [documents |->
                IF updated
                THEN {IF d.id = doc_id
                      THEN [d EXCEPT !.status = "processed"] ELSE d :
                      d \in docs}
                ELSE docs,
             embeddings |->
                IF committed
                THEN SetAll(embs,
                            BatchRecords(doc_id, chunks, StagedChunks(n, fault)))
                ELSE embs,
             emb |-> EmbedCalls(n, fault),
             failed |->
                IF fault.kind = "embed" /\ fault.at < n THEN "embed"
                ELSE IF fault.kind \in {"commit", "update"} THEN fault.kind
                ELSE "none",
             chunked |-> TRUE,
             wrote |-> (IF committed /\ n > 0 THEN {"embedding"} ELSE {})
                       \cup (IF updated THEN {"status"} ELSE {})]

\* the request is turned away with 400 before anything is generated
GeminiUploadRejected(up) ==
    \/ ~ up.present
    \/ up.filename = <<>>
    \/ ~ EndsWithPdf(up.filename)

UploadFaultsGemini ==
    {f \in Faults : f.kind \in {"none", "blob", "db", "read", "embed",
                                "commit", "update"}}

\* mutant of GeminiUploadCode: a failure of extraction or embedding reaches
\* the handler's except clause
GeminiUploadCode_Propagates(failed) == IF failed = "none" THEN 201 ELSE 500

\* the response once the blob and the document record are written: what
\* extraction and create_and_store_embeddings did is not looked at
GeminiUploadCode(failed) == 201

\* POST /upload_pdf (gemini_version)
upload_pdf_gemini(up, fault) ==
    /\ variant = "gemini"
    /\ IF GeminiUploadRejected(up)
       THEN /\ fault = NoFault
            /\ last' = [NoRequest EXCEPT !.ep = "upload_pdf", !.code = 400,
                           !.body = "error", !.present = up.present,
                           !.fname = up.filename]
            /\ UNCHANGED <<nextId, files, documents, embeddings>>
       ELSE /\ nextId < MaxDocs
            /\ nextId' = nextId + 1
            /\ LET doc_id == nextId
                   path == StoragePath(doc_id, up.filename)
                   resp == [NoRequest EXCEPT !.ep = "upload_pdf",
                               !.doc = doc_id, !.present = TRUE,
                               !.fname = up.filename]
               IN
               IF fault.kind = "blob"
               THEN /\ last' = [resp EXCEPT !.code = 500, !.body = "error",
                                   !.failed = "blob"]
                    /\ UNCHANGED <<files, documents, embeddings>>
               ELSE
               LET fs == files \cup {[path |-> path, content |-> up.content]}
               IN
               IF fault.kind = "db"
               THEN /\ files' = fs
                    /\ last' = [resp EXCEPT !.code = 500, !.body = "error",
                                   !.failed = "db", !.wrote = {"file"}]
                    /\ UNCHANGED <<documents, embeddings>>
               ELSE
               LET docs == documents \cup
                       {[id |-> doc_id, storage_path |-> path,
                         status |-> "uploaded"]}
                   x == GeminiExtract(docs, fs, doc_id, fault)
                   r == IF Truthy(x.text)
                        THEN GeminiCreateAndStore(docs, embeddings, doc_id,
                                                  x.text, fault)
                        ELSE [documents |-> docs, embeddings |-> embeddings,
                              emb |-> 0,
                              failed |-> IF fault.kind = "read"
                                         THEN "read" ELSE "none",
                              chunked |-> FALSE, wrote |-> {}]
               IN /\ \/ fault.kind \in {"none", "read"}
                     \/ r.failed = fault.kind
                  /\ files' = fs
                  /\ documents' = r.documents
                  /\ embeddings' = r.embeddings
                  /\ last' = [resp EXCEPT
                                 !.code = GeminiUploadCode(r.failed),
                                 !.body = IF GeminiUploadCode(r.failed) = 201
                                          THEN "success" ELSE "error",
                                 !.failed = r.failed,
                                 !.at = IF r.failed = "embed"
                                        THEN fault.at ELSE -1,
                                 !.emb = r.emb, !.xcase = x.xcase,
                                 !.text = x.text, !.chunked = r.chunked,
                                 !.wrote = {"file", "document"} \cup r.wrote]
    /\ UNCHANGED <<variant, model, embedding_model>>

(* --------------------- groq_version: ingestion ------------------------ *)

\* os.path.join(UPLOAD_FOLDER, f"{doc_id}_{pdf.filename}"): as above, a
\* path is the document id in it
UploadPath(doc_id, filename) == doc_id

\* extract_text_from_pdf(path) when PdfReader can read the file: the pages
\* that have text, joined by "\n"
GroqFullText(pages) == Join(<<NL>>, SelectSeq(pages, NotEmptyPage))

\* the chunk the loop of upload_pdf stops at: n when it runs to its end
GroqFailedAt(n, fault) ==
    IF fault.kind \in {"embed", "insert"} /\ fault.at < n THEN fault.at ELSE n

\* mutant of RowsCommitted: the loop runs in one transaction that the
\* exception rolls back
RowsCommitted_Rollback(n, fault) ==
    IF GroqFailedAt(n, fault) < n THEN 0 ELSE n

\* the rows of the loop that stay in the table: conn.autocommit = True,
\* every INSERT that returned is committed
RowsCommitted(n, fault) == GroqFailedAt(n, fault)

\* embed_text calls made by the loop
GroqEmbedCalls(n, fault) ==
    IF GroqFailedAt(n, fault) < n THEN GroqFailedAt(n, fault) + 1 ELSE n

\* the rows INSERTed for chunks 0 .. k-1; key is the row's place in the table
InsertedRows(embs, doc_id, chunks, k) ==
    {[document_id |-> doc_id, key |-> Cardinality(embs) + i - 1,
      content |-> chunks[i], embedding |-> Embed(chunks[i])] : i \in 1 .. k}

\* `if not pdf`: no file field, or a FileStorage with an empty filename
GroqUploadRejected(up) == ~ up.present \/ up.filename = <<>>

UploadFaultsGroq ==
    {f \in Faults : f.kind \in {"none", "blob", "db", "read", "embed",
                                "insert"}}

\* the response of upload_pdf once the file and the documents row are
\* written: 500 with the error when a later step raised, else 200
GroqUploadCode(failed) == IF failed = "none" THEN 200 ELSE 500

\* POST /upload_pdf (groq_version)
upload_pdf_groq(up, fault) ==
    /\ variant = "groq"
    /\ IF GroqUploadRejected(up)
       THEN /\ fault = NoFault
            /\ last' = [NoRequest EXCEPT !.ep = "upload_pdf", !.code = 400,
                           !.body = "error", !.present = up.present,
                           !.fname = up.filename]
            /\ UNCHANGED <<nextId, files, documents, embeddings>>
       ELSE /\ nextId < MaxDocs
            /\ nextId' = nextId + 1
            /\ LET doc_id == nextId
                   path == UploadPath(doc_id, up.filename)
                   resp == [NoRequest EXCEPT !.ep = "upload_pdf",
                               !.doc = doc_id, !.present = TRUE,
                               !.fname = up.filename]
               IN
               IF fault.kind = "blob"
               THEN /\ last' = [resp EXCEPT !.code = 500, !.body = "error",
                                   !.failed = "blob"]
                    /\ UNCHANGED <<files, documents, embeddings>>
               ELSE
               LET fs == files \cup {[path |-> path, content |-> up.content]}
               IN
               IF fault.kind = "db"
               THEN /\ files' = fs
                    /\ last' = [resp EXCEPT !.code = 500, !.body = "error",
                                   !.failed = "db", !.wrote = {"file"}]
                    /\ UNCHANGED <<documents, embeddings>>
               ELSE
               LET docs == documents \cup
                       {[id |-> doc_id, storage_path |-> path,
                         status |-> "n/a"]}
               IN
               IF fault.kind = "read" \/ ~ up.content.readable
               THEN /\ files' = fs
                    /\ documents' = docs
                    /\ last' = [resp EXCEPT !.code = 500, !.body = "error",
                                   !.failed = "read",
                                   !.xcase = IF fault.kind = "read"
                                             THEN "missing" ELSE "unreadable",
                                   !.wrote = {"file", "document"}]
                    /\ (fault.kind = "read" \/ fault = NoFault)
                    /\ UNCHANGED embeddings
               ELSE
               LET text == GroqFullText(up.content.pages)
                   chunks == split_text(text)
                   n == Len(chunks)
                   k == RowsCommitted(n, fault)
                   failed == IF GroqFailedAt(n, fault) < n
                             THEN fault.kind ELSE "none"
               IN /\ (fault = NoFault \/ failed = fault.kind)
                  /\ files' = fs
                  /\ documents' = docs
                  /\ embeddings' =
                        embeddings \cup InsertedRows(embeddings, doc_id, chunks, k)
                  /\ last' = [resp EXCEPT
                                 !.code = GroqUploadCode(failed),
                                 !.body = IF GroqUploadCode(failed) = 200
                                          THEN "success" ELSE "error",
                                 !.failed = failed,
                                 !.at = IF failed = "none"
                                        THEN -1 ELSE fault.at,
                                 !.emb = GroqEmbedCalls(n, fault),
                                 !.xcase = PagesCase(up.content.pages),
                                 !.text = text, !.chunked = TRUE,
                                 !.wrote = {"file", "document"} \cup
                                     (IF k > 0 THEN {"embedding"} ELSE {})]
    /\ UNCHANGED <<variant, model, embedding_model>>

(* ----------------------------- retrieval ------------------------------ *)

\* the number of records of cands within distance d of the vector qv
Within(cands, qv, d) ==
    Cardinality({c \in cands : Distance(c.embedding, qv) <= d})

\* the distance of the k-th nearest record: a coordinate is in 0 .. 4
KthDistance(cands, qv, k) ==
    CHOOSE d \in 0 .. 4 :
        /\ Within(cands, qv, d) >= k
        /\ \A d2 \in 0 .. 4 : Within(cands, qv, d2) >= k => d <= d2

\* the results a nearest-neighbour query with limit k may return: the k
\* nearest records, records at the same distance being taken in any order
Nearest(cands, qv, k) ==
    IF Cardinality(cands) <= k THEN {cands}
    ELSE LET d == KthDistance(cands, qv, k)
             sure == {c \in cands : Distance(c.embedding, qv) < d}
             ties == {c \in cands : Distance(c.embedding, qv) = d}
         IN {sure \cup t : t \in {u \in SUBSET ties :
                              Cardinality(u) = k - Cardinality(sure)}}

\* db.collection('documents').document(doc_id).collection('embeddings')
GeminiCandidates(doc_id) == EmbeddingsOf(doc_id)

\* mutant of GroqCandidates: the query without its WHERE clause
GroqCandidates_NoWhere(doc_id) == embeddings

\* FROM embeddings WHERE document_id = %s
GroqCandidates(doc_id) == {e \in embeddings : e.document_id = doc_id}

\* mutant of NoQuestion: `if question is None`
NoQuestion_IsNone(q) == q = None

\* `if not question`
NoQuestion(q) == ~ Truthy(q)

\* `if not model or not embedding_model`
ModelsMissing == ~ model \/ ~ embedding_model

AskFaults == {f \in Faults : f.kind \in {"none", "db", "llm"}
                             \/ (f.kind = "embed" /\ f.at = 0)}

\* POST /ask_question/<doc_id> (gemini_version)
ask_question_gemini(doc_id, q, fault) ==
    /\ variant = "gemini"
    /\ LET resp == [NoRequest EXCEPT !.ep = "ask_question", !.doc = doc_id,
                       !.q = q]
       IN
       IF ModelsMissing
       THEN /\ fault = NoFault
            /\ last' = [resp EXCEPT !.code = 500, !.body = "not initialized"]
       ELSE IF NoQuestion(q)
       THEN /\ fault = NoFault
            /\ last' = [resp EXCEPT !.code = 400, !.body = "error"]
       ELSE IF fault.kind = "embed"
       THEN last' = [resp EXCEPT !.code = 500, !.body = "error",
                      !.failed = "embed", !.emb = 1]
       ELSE IF fault.kind = "db"
       THEN last' = [resp EXCEPT !.code = 500, !.body = "error",
                      !.failed = "db", !.emb = 1]
       ELSE \E hits \in Nearest(GeminiCandidates(doc_id), Embed(q), TopK) :
               IF hits = {}
               THEN /\ fault = NoFault
                    /\ last' = [resp EXCEPT !.code = 200, !.body = "canned",
                                   !.emb = 1]
               ELSE IF fault.kind = "llm"
               THEN last' = [resp EXCEPT !.code = 500, !.body = "error",
                                !.failed = "llm", !.emb = 1, !.llm = 1,
                                !.ctx = hits]
               ELSE last' = [resp EXCEPT !.code = 200, !.body = "answer",
                                !.emb = 1, !.llm = 1, !.ctx = hits]
    /\ UNCHANGED <<variant, model, embedding_model, nextId, files,
                   documents, embeddings>>

\* POST /ask_question/<doc_id> (groq_version)
ask_question_groq(doc_id, q, fault) ==
    /\ variant = "groq"
    /\ LET resp == [NoRequest EXCEPT !.ep = "ask_question", !.doc = doc_id,
                       !.q = q]
       IN
       IF NoQuestion(q)
       THEN /\ fault = NoFault
            /\ last' = [resp EXCEPT !.code = 400, !.body = "error"]
       ELSE IF fault.kind = "embed"
       THEN last' = [resp EXCEPT !.code = 500, !.body = "unhandled",
                      !.unhandled = TRUE, !.failed = "embed", !.emb = 1]
       ELSE IF fault.kind = "db"
       THEN last' = [resp EXCEPT !.code = 500, !.body = "unhandled",
                      !.unhandled = TRUE, !.failed = "db", !.emb = 1]
       ELSE \E hits \in Nearest(GroqCandidates(doc_id), Embed(q), TopK) :
               IF fault.kind = "llm"
               THEN last' = [resp EXCEPT !.code = 500, !.body = "unhandled",
                                !.unhandled = TRUE, !.failed = "llm",
                                !.emb = 1, !.llm = 1, !.ctx = hits]
               ELSE last' = [resp EXCEPT !.code = 200, !.body = "answer",
                                !.emb = 1, !.llm = 1, !.ctx = hits]
    /\ UNCHANGED <<variant, model, embedding_model, nextId, files,
                   documents, embeddings>>

(* ------------------------- text extraction ---------------------------- *)

\* the external call of extract_text_from_pdf that raised, if one did
ExtractFailed(x, fault) ==
    IF x.xcase = "dberror" THEN "db"
    ELSE IF x.xcase = "missing" /\ fault.kind = "read" THEN "read"
    ELSE "none"

ExtractFaults == {f \in Faults : f.kind \in {"none", "db", "read"}}

\* GET /get_text/<doc_id> (gemini_version)
get_pdf_text(doc_id, fault) ==
    /\ variant = "gemini"
    /\ LET x == GeminiExtract(documents, files, doc_id, fault)
           resp == [NoRequest EXCEPT !.ep = "get_text", !.doc = doc_id,
                       !.xcase = x.xcase, !.text = x.text,
                       !.failed = ExtractFailed(x, fault)]
       IN IF Truthy(x.text)
          THEN last' = [resp EXCEPT !.code = 200, !.body = "success"]
          ELSE last' = [resp EXCEPT !.code = 500, !.body = "error"]
    /\ UNCHANGED <<variant, model, embedding_model, nextId, files,
                   documents, embeddings>>

(* ----------------------------- summaries ------------------------------ *)

\* the rows a SELECT ... LIMIT k without ORDER BY may return
Limit(rows, k) ==
    IF Cardinality(rows) <= k THEN {rows}
    ELSE {r \in SUBSET rows : Cardinality(r) = k}

QueryFaults == {f \in Faults : f.kind \in {"none", "db", "read", "llm"}}

\* GET /summarize/<doc_id> (gemini_version); mock is USE_MOCK_AI == "True"
summarize_pdf(doc_id, mock, fault) ==
    /\ variant = "gemini"
    /\ LET resp == [NoRequest EXCEPT !.ep = "summarize", !.doc = doc_id,
                       !.code = 200]
       IN
       IF mock
       THEN /\ fault = NoFault
            /\ last' = [resp EXCEPT !.body = "mock"]
       ELSE IF ~ model
       THEN /\ fault = NoFault
            /\ last' = [resp EXCEPT !.body = "not initialized"]
       ELSE
       LET x == GeminiExtract(documents, files, doc_id, fault)
           r == [resp EXCEPT !.xcase = x.xcase, !.text = x.text]
       IN
       IF ~ Truthy(x.text)
       THEN /\ fault.kind # "llm"
            /\ last' = [r EXCEPT !.body = "error",
                           !.failed = ExtractFailed(x, fault)]
       ELSE IF fault.kind = "llm"
       THEN last' = [r EXCEPT !.body = "error", !.failed = "llm", !.llm = 1]
       ELSE /\ fault = NoFault
            /\ last' = [r EXCEPT !.body = "summary", !.llm = 1]
    /\ UNCHANGED <<variant, model, embedding_model, nextId, files,
                   documents, embeddings>>

\* GET /summarize/<doc_id> (groq_version)
summarize(doc_id, fault) ==
    /\ variant = "groq"
    /\ fault.kind \in {"none", "db", "llm"}
    /\ LET resp == [NoRequest EXCEPT !.ep = "summarize", !.doc = doc_id]
       IN
       IF fault.kind = "db"
       THEN last' = [resp EXCEPT !.code = 500, !.body = "unhandled",
                        !.unhandled = TRUE, !.failed = "db"]
       ELSE \E rows \in Limit(GroqCandidates(doc_id), SummarizeLimit) :
               IF fault.kind = "llm"
               THEN last' = [resp EXCEPT !.code = 500, !.body = "unhandled",
                                !.unhandled = TRUE, !.failed = "llm",
                                !.llm = 1, !.ctx = rows]
               ELSE last' = [resp EXCEPT !.code = 200, !.body = "summary",
                                !.llm = 1, !.ctx = rows]
    /\ UNCHANGED <<variant, model, embedding_model, nextId, files,
                   documents, embeddings>>

(* ----------------------------- flashcards ----------------------------- *)

(* The generative-text provider's reply is a sequence of tokens:           *)
(*   "[" "]" "{" "}" "," ":"   JSON punctuation                            *)
(*   "Q" "A" "S"   the string literals "question", "answer", another one   *)
(*   "N"           a number                                                *)
(*   "w"           a word of prose                                         *)
(*   "F"           a Markdown code fence, ```json or ```                   *)
(* A parsed JSON value is [t, s, items, keys]: t its Python type, s the    *)
(* token of a string, items the elements of a list or the values of a      *)
(* dict, keys the keys of a dict.                                          *)

Str(tok) == [t |-> "str", s |-> tok, items |-> <<>>, keys |-> <<>>]
Num == [t |-> "num", s |-> "N", items |-> <<>>, keys |-> <<>>]
List(items) == [t |-> "list", s |-> "", items |-> items, keys |-> <<>>]
Dict(keys, vals) == [t |-> "dict", s |-> "", items |-> vals, keys |-> keys]

ParseFail == [ok |-> FALSE, val |-> Num, rest |-> <<>>]
Parsed(v, rest) == [ok |-> TRUE, val |-> v, rest |-> rest]

RECURSIVE ParseValue(_)
RECURSIVE ParseItems(_, _)
RECURSIVE ParseMembers(_, _, _)

\* the elements of an array after "[" or ",": value ("," value)* "]"
ParseItems(ts, acc) ==
    LET v == ParseValue(ts) IN
    IF ~ v.ok \/ v.rest = <<>> THEN ParseFail
    ELSE IF Head(v.rest) = "," THEN ParseItems(Tail(v.rest), Append(acc, v.val))
    ELSE IF Head(v.rest) = "]"
    THEN Parsed(List(Append(acc, v.val)), Tail(v.rest))
    ELSE ParseFail

\* the members of an object after "{" or ",": string ":" value ... "}"
ParseMembers(ts, keys, vals) ==
    IF Len(ts) < 2 \/ ts[1] \notin {"Q", "A", "S"} \/ ts[2] # ":"
    THEN ParseFail
    ELSE LET v == ParseValue(SubSeq(ts, 3, Len(ts))) IN
         IF ~ v.ok \/ v.rest = <<>> THEN ParseFail
         ELSE IF Head(v.rest) = ","
         THEN ParseMembers(Tail(v.rest), Append(keys, ts[1]),
                           Append(vals, v.val))
         ELSE IF Head(v.rest) = "}"
         THEN Parsed(Dict(Append(keys, ts[1]), Append(vals, v.val)),
                     Tail(v.rest))
         ELSE ParseFail

\* one JSON value at the head of ts
ParseValue(ts) ==
    IF ts = <<>> THEN ParseFail
    ELSE IF Head(ts) \in {"Q", "A", "S"} THEN Parsed(Str(Head(ts)), Tail(ts))
    ELSE IF Head(ts) = "N" THEN Parsed(Num, Tail(ts))
    ELSE IF Head(ts) = "["
    THEN IF Len(ts) >= 2 /\ ts[2] = "]"
         THEN Parsed(List(<<>>), SubSeq(ts, 3, Len(ts)))
         ELSE ParseItems(Tail(ts), <<>>)
    ELSE IF Head(ts) = "{"
    THEN IF Len(ts) >= 2 /\ ts[2] = "}"
         THEN Parsed(Dict(<<>>, <<>>), SubSeq(ts, 3, Len(ts)))
         ELSE ParseMembers(Tail(ts), <<>>, <<>>)
    ELSE ParseFail

\* json.loads: the whole text is one value
json_loads(ts) ==
    LET r == ParseValue(ts) IN
    IF r.ok /\ r.rest = <<>> THEN r ELSE ParseFail

NotFence(tok) == tok # "F"
\* response.text.strip().replace("```json", "").replace("```", "")
CleanFences(ts) == SelectSeq(ts, NotFence)

\* re.search(r"\[.*\]", response, re.DOTALL): from the first "[" to the
\* last "]" after it; <<>> when there is no match
BracketMatch(ts) ==
    LET opens == {i \in 1 .. Len(ts) : ts[i] = "["}
        closes == {i \in 1 .. Len(ts) : ts[i] = "]"}
    IN IF opens = {} THEN <<>>
       ELSE LET i == CHOOSE x \in opens : \A y \in opens : x <= y
                after == {j \in closes : j > i}
            IN IF after = {} THEN <<>>
               ELSE SubSeq(ts, i, CHOOSE x \in after : \A y \in after : y <= x)

\* d[key] of a parsed dict that has the key (the last member wins)
DictGet(d, key) ==
    d.items[CHOOSE i \in 1 .. Len(d.keys) :
               /\ d.keys[i] = key
               /\ \A j \in 1 .. Len(d.keys) : d.keys[j] = key => j <= i]
HasKey(d, key) == \E i \in 1 .. Len(d.keys) : d.keys[i] = key

\* markdown2.markdown(v) returns (it raises on anything but a string)
MarkdownOk(v) == v.t = "str"

\* `key in card` raises (the card is a number)
InRaises(card) == card.t = "num"
\* `key in card` of a dict, a string or a list; the key is "Q" or "A"
InCard(key, card) ==
    IF card.t = "dict" THEN HasKey(card, key)
    ELSE IF card.t = "str" THEN card.s = key
    ELSE IF card.t = "list"
    THEN \E i \in 1 .. Len(card.items) : card.items[i] = Str(key)
    ELSE FALSE

\* the body of gemini's loop for one card and one key runs without raising
GeminiFieldOk(card, key) ==
    /\ ~ InRaises(card)
    /\ InCard(key, card) => /\ card.t = "dict"
                            /\ MarkdownOk(DictGet(card, key))

\* what `for card in flashcards_data` iterates over
IterItems(v) ==
    IF v.t = "list" THEN v.items
    ELSE IF v.t = "dict" THEN [i \in 1 .. Len(v.keys) |-> Str(v.keys[i])]
    ELSE <<>>

\* mutant of GeminiCardsOk: a reply json.loads rejects is rendered as it is
GeminiCardsOk_NoParseError(reply) ==
    LET r == json_loads(CleanFences(reply)) IN
    r.ok => /\ r.val.t # "num"
            /\ \A i \in 1 .. Len(IterItems(r.val)) :
                  /\ GeminiFieldOk(IterItems(r.val)[i], "Q")
                  /\ GeminiFieldOk(IterItems(r.val)[i], "A")

\* gemini's try block after the reply arrived runs to render_template
GeminiCardsOk(reply) ==
    LET r == json_loads(CleanFences(reply)) IN
    /\ r.ok
    /\ r.val.t # "num"
    /\ \A i \in 1 .. Len(IterItems(r.val)) :
          /\ GeminiFieldOk(IterItems(r.val)[i], "Q")
          /\ GeminiFieldOk(IterItems(r.val)[i], "A")

\* card["question"] / card["answer"] and its markdown2 call do not raise
GroqFieldOk(card, key) ==
    /\ card.t = "dict"
    /\ HasKey(card, key)
    /\ MarkdownOk(DictGet(card, key))

\* groq's try block after the reply arrived runs to render_template
GroqCardsOk(reply) ==
    LET m == BracketMatch(reply)
        r == json_loads(m)
    IN /\ m # <<>>
       /\ r.ok
       /\ \A i \in 1 .. Len(IterItems(r.val)) :
             /\ GroqFieldOk(IterItems(r.val)[i], "Q")
             /\ GroqFieldOk(IterItems(r.val)[i], "A")

\* the number of cards the template gets from a parsed value
CardCount(v) ==
    IF v.t = "list" THEN Len(v.items)
    ELSE IF v.t = "dict" THEN Len(v.keys)
    ELSE 1

GoodCard == <<"{", "Q", ":", "S", ",", "A", ":", "S", "}">>
Replies ==
    { <<"[">> \o GoodCard \o <<"]">>,
      <<"[">> \o GoodCard \o <<",">> \o GoodCard \o <<"]">>,
      <<"F", "[">> \o GoodCard \o <<"]", "F">>,
      <<"w", "w", "[">> \o GoodCard \o <<"]", "w">>,
      <<"w", "[", "N", "]", "w", "[">> \o GoodCard \o <<"]">>,
      <<"[", "{", "Q", ":", "S", ",">>,
      <<"w", "w">>,
      <<"N">>,
      <<"S">>,
      <<"[", "]">>,
      GoodCard,
      <<"{", "S", ":", "S", "}">>,
      <<"[", "{", "S", ":", "S", "}", "]">>,
      <<"[", "{", "Q", ":", "S", "}", "]">>,
      <<"[", "{", "Q", ":", "N", ",", "A", ":", "S", "}", "]">>,
      <<"[", "S", "]">>,
      <<"[", "N", "]">>,
      <<"[", "[", "Q", "]", "]">> }

\* what each variant does with each reply: whether its try block runs to
\* the end, and the number of cards it then renders
GeminiOutcome ==
    [r \in Replies |->
        [ok |-> GeminiCardsOk(r),
         n |-> CardCount(json_loads(CleanFences(r)).val)]]
GroqOutcome ==
    [r \in Replies |->
        [ok |-> GroqCardsOk(r),
         n |-> CardCount(json_loads(BracketMatch(r)).val)]]

\* GET /generate_flashcards/<doc_id> (gemini_version)
generate_flashcards_gemini(doc_id, mock, fault) ==
    /\ variant = "gemini"
    /\ LET resp == [NoRequest EXCEPT !.ep = "generate_flashcards",
                       !.doc = doc_id, !.code = 200]
       IN
       IF mock
       THEN /\ fault = NoFault
            /\ last' = [resp EXCEPT !.body = "mock", !.cards = "mock",
                           !.ncards = 2]
       ELSE IF ~ model
       THEN /\ fault = NoFault
            /\ last' = [resp EXCEPT !.body = "empty", !.cards = "data"]
       ELSE
       LET x == GeminiExtract(documents, files, doc_id, fault)
           r == [resp EXCEPT !.xcase = x.xcase, !.text = x.text]
       IN
       IF ~ Truthy(x.text)
       THEN /\ fault.kind # "llm"
            /\ last' = [r EXCEPT !.body = "empty", !.cards = "data",
                           !.failed = ExtractFailed(x, fault)]
       ELSE IF fault.kind = "llm"
       THEN last' = [r EXCEPT !.body = "error card", !.cards = "error",
                        !.ncards = 1, !.failed = "llm", !.llm = 1]
       ELSE /\ fault = NoFault
            /\ \E reply \in Replies :
                  IF GeminiOutcome[reply].ok
                  THEN last' = [r EXCEPT !.body = "flashcards",
                                   !.cards = "data", !.llm = 1,
                                   !.reply = reply,
                                   !.ncards = GeminiOutcome[reply].n]
                  ELSE last' = [r EXCEPT !.body = "error card",
                                   !.cards = "error", !.ncards = 1,
                                   !.llm = 1, !.reply = reply]
    /\ UNCHANGED <<variant, model, embedding_model, nextId, files,
                   documents, embeddings>>

\* GET /generate_flashcards/<doc_id> (groq_version)
generate_flashcards_groq(doc_id, fault) ==
    /\ variant = "groq"
    /\ fault.kind \in {"none", "db", "llm"}
    /\ LET resp == [NoRequest EXCEPT !.ep = "generate_flashcards",
                       !.doc = doc_id, !.code = 200]
           err == [resp EXCEPT !.body = "error card", !.cards = "error",
                      !.ncards = 1]
       IN
       IF fault.kind = "db"
       THEN last' = [err EXCEPT !.failed = "db"]
       ELSE \E rows \in Limit(GroqCandidates(doc_id), FlashcardLimit) :
               IF rows = {}
               THEN /\ fault = NoFault
                    /\ last' = err
               ELSE IF fault.kind = "llm"
               THEN last' = [err EXCEPT !.failed = "llm", !.llm = 1,
                                !.ctx = rows]
               ELSE \E reply \in Replies :
                       IF GroqOutcome[reply].ok
                       THEN last' = [resp EXCEPT !.body = "flashcards",
                                        !.cards = "data", !.llm = 1,
                                        !.ctx = rows, !.reply = reply,
                                        !.ncards = GroqOutcome[reply].n]
                       ELSE last' = [err EXCEPT !.llm = 1, !.ctx = rows,
                                        !.reply = reply]
    /\ UNCHANGED <<variant, model, embedding_model, nextId, files,
                   documents, embeddings>>

(* --------------------------- specification ---------------------------- *)

Init ==
    /\ variant \in {"gemini", "groq"}
    /\ model \in BOOLEAN
    /\ embedding_model \in BOOLEAN
    /\ (variant = "groq" => model /\ embedding_model)
    /\ nextId = 0
    /\ files = {}
    /\ documents = {}
    /\ embeddings = {}
    /\ last = NoRequest

UploadGemini ==
    \E up \in Uploads, fault \in UploadFaultsGemini :
       upload_pdf_gemini(up, fault)
UploadGroq ==
    \E up \in Uploads, fault \in UploadFaultsGroq :
       upload_pdf_groq(up, fault)
AskGemini ==
    \E doc_id \in UrlIds, q \in Questions, fault \in AskFaults :
       ask_question_gemini(doc_id, q, fault)
AskGroq ==
    \E doc_id \in UrlIds, q \in Questions, fault \in AskFaults :
       ask_question_groq(doc_id, q, fault)
GetText ==
    \E doc_id \in UrlIds, fault \in ExtractFaults :
       get_pdf_text(doc_id, fault)
SummarizeGemini ==
    \E doc_id \in UrlIds, mock \in BOOLEAN, fault \in QueryFaults :
       summarize_pdf(doc_id, mock, fault)
SummarizeGroq ==
    \E doc_id \in UrlIds, fault \in QueryFaults :
       summarize(doc_id, fault)
FlashcardsGemini ==
    \E doc_id \in UrlIds, mock \in BOOLEAN, fault \in QueryFaults :
       generate_flashcards_gemini(doc_id, mock, fault)
FlashcardsGroq ==
    \E doc_id \in UrlIds, fault \in QueryFaults :
       generate_flashcards_groq(doc_id, fault)

\* the whole program: every endpoint of the variant that runs
Next ==
    \/ UploadGemini
    \/ UploadGroq
    \/ AskGemini
    \/ AskGroq
    \/ GetText
    \/ SummarizeGemini
    \/ SummarizeGroq
    \/ FlashcardsGemini
    \/ FlashcardsGroq

Spec == Init /\ [][Next]_vars

(* Only upload_pdf writes to the stores; every other handler leaves files, *)
(* documents and embeddings as they are.  The stores reachable under Spec  *)
(* are therefore those reachable by uploads alone, and a property of one   *)
(* endpoint's responses is checked with the uploads and that endpoint.     *)

NextIngest ==
    \/ UploadGemini
    \/ UploadGroq

SpecIngest == Init /\ [][NextIngest]_vars

NextAsk ==
    \/ UploadGemini
    \/ UploadGroq
    \/ AskGemini
    \/ AskGroq

SpecAsk == Init /\ [][NextAsk]_vars

NextCards ==
    \/ UploadGemini
    \/ UploadGroq
    \/ FlashcardsGemini
    \/ FlashcardsGroq

SpecCards == Init /\ [][NextCards]_vars

(* ------------------------------ claims -------------------------------- *)

IsUpload == last.ep = "upload_pdf"
IsAsk == last.ep = "ask_question"
IsCards == last.ep = "generate_flashcards"

\* C1: an upload whose file name does not end in ".pdf" is answered 400
\* and writes no file, no document record and no embedding record.
\* (Stated as claimed; groq_version has no extension check.)
C1_NonPdfRejected ==
    (IsUpload /\ last.present /\ ~ EndsWithPdf(last.fname))
        => (last.code = 400 /\ last.wrote = {})

C3_NoEmbeddingsNoLLM ==
    (IsAsk /\ Truthy(last.q) /\ EmbeddingsOf(last.doc) = {}
           /\ last.failed = "none" /\ model /\ embedding_model)
        => (last.body = "canned" /\ last.llm = 0)

\* v is a JSON array of objects that each have a string "question" and a
\* string "answer"
IsFlashcardArray(v) ==
    /\ v.t = "list"
    /\ \A i \in 1 .. Len(v.items) :
          /\ v.items[i].t = "dict"
          /\ \A key \in {"Q", "A"} :
                /\ HasKey(v.items[i], key)
                /\ DictGet(v.items[i], key).t = "str"

\* the token text parses as such an array
ParsesAsFlashcards(ts) ==
    json_loads(ts).ok /\ IsFlashcardArray(json_loads(ts).val)

\* the reply holds such an array, bare, fenced or as its bracketed part
ReplyIsFlashcards ==
    [r \in Replies |->
        \/ ParsesAsFlashcards(CleanFences(r))
        \/ ParsesAsFlashcards(BracketMatch(r))]

\* the text the variant hands to json.loads is not JSON
ReplyIsNotJson ==
    [r \in Replies |->
        [gemini |-> ~ json_loads(CleanFences(r)).ok,
         groq |-> ~ ParsesAsFlashcards(BracketMatch(r))]]

GotReply == IsCards /\ last.llm = 1 /\ last.failed = "none"
OneErrorCard == last.cards = "error" /\ last.ncards = 1

C5_AbsenceSignal ==
    /\ last.xcase \in {"nodoc", "missing", "unreadable", "notext"}
          => ~ Truthy(last.text)
    /\ (IsUpload /\ last.xcase = "notext") => ~ last.chunked

\* C6: a failed external call never leaves a handler as an unhandled
\* exception.  (Stated as claimed; groq_version's summarize and
\* ask_question have no try block.)
C6_NoUnhandled == last.failed # "none" => ~ last.unhandled

\* C7 as claimed: a missing or empty question is answered 400 whatever the
\* state of the model clients, and no provider is called.
C7_Always400 ==
    (IsAsk /\ ~ Truthy(last.q))
        => (last.code = 400 /\ last.emb = 0 /\ last.llm = 0)

\* C7, amended: a missing or empty question never reaches the embedding or
\* the generative-text provider; it is answered 400, except in
\* gemini_version when a model client is not initialised, which is
\* answered 500 before the body is read.
C7_NoQuestion ==
    (IsAsk /\ ~ Truthy(last.q))
        => /\ last.emb = 0 /\ last.llm = 0
           /\ last.code = IF variant = "gemini" /\ (~ model \/ ~ embedding_model)
                          THEN 500 ELSE 400

\* C7 witness: an empty question was answered 400 while the asked document
\* has embedding records
C7_Witness ==
    /\ IsAsk /\ last.q = <<>> /\ last.code = 400
    /\ EmbeddingsOf(last.doc) # {}

\* C8: the chunks ask_question retrieves are at most 5 and each is a
\* stored embedding record of the asked document.
C8_RetrievalScoped ==
    IsAsk => /\ Cardinality(last.ctx) <= 5
             /\ \A c \in last.ctx :
                   c \in embeddings /\ c.document_id = last.doc

\* C8 witness: five chunks were retrieved for a document that has more,
\* while another document has records too
C8_Witness ==
    /\ IsAsk /\ Cardinality(last.ctx) = 5
    /\ Cardinality(EmbeddingsOf(last.doc)) > 5
    /\ \E e \in embeddings : e.document_id # last.doc

\* C9: in gemini_version, when the embedding call of chunk i fails, no
\* later chunk is embedded, the document has no embedding record and its
\* status is still "uploaded".
C9_FailedBatchStoresNothing ==
    (IsUpload /\ variant = "gemini" /\ last.failed = "embed")
        => /\ last.emb = last.at + 1
           /\ EmbeddingsOf(last.doc) = {}
           /\ DocExists(last.doc)
           /\ DocRecord(last.doc).status = "uploaded"

\* C9 witness: the call failed after earlier chunks had been embedded
C9_Witness ==
    /\ IsUpload /\ variant = "gemini"
    /\ last.failed = "embed" /\ last.at >= 1

\* the document's rows are those of the first k chunks of the text
HasFirstRows(doc_id, text, k) ==
    /\ Cardinality(EmbeddingsOf(doc_id)) = k
    /\ \A i \in 1 .. k :
          \E e \in EmbeddingsOf(doc_id) :
             /\ e.content = split_text(text)[i]
             /\ e.embedding = Embed(split_text(text)[i])

GroqLoopFailed ==
    IsUpload /\ variant = "groq" /\ last.failed \in {"embed", "insert"}

Rank(e, recs) == Cardinality({x \in recs : x.key < e.key})

\* the upload just answered ran extraction, chunking, every embedding call
\* and every store write without a failure
FullIngest == IsUpload /\ last.failed = "none" /\ last.chunked

\* recs are one record per chunk, in chunk order, each with the chunk's
\* text and vector; in gemini_version record i is the one named chunk_i
OnePerChunk(recs, chunks) ==
    /\ Cardinality(recs) = Len(chunks)
    /\ \A i \in 1 .. Len(chunks) :
          /\ Cardinality({e \in recs : Rank(e, recs) = i - 1}) = 1
          /\ \A e \in recs :
                Rank(e, recs) = i - 1
                   => /\ e.content = chunks[i]
                      /\ e.embedding = Embed(chunks[i])
                      /\ (variant = "gemini" => e.key = i - 1)

C11_AfterFullIngest ==
    FullIngest => OnePerChunk(EmbeddingsOf(last.doc), split_text(last.text))

\* the records of every document whose upload has been answered are the
\* same after the step
C11_RecordsKept ==
    \A d \in DocIds : d < nextId => EmbeddingsOf(d)' = EmbeddingsOf(d)

StoredChunks(d) ==
    split_text(GeminiFullText(
        (CHOOSE f \in files : f.path = d.storage_path).content.pages))

\* a document marked "processed" has its file and exactly the records
\* chunk_0 .. chunk_(N-1) of the file's N chunks
ProcessedHasRecords(d) ==
    d.status = "processed"
        => /\ \E f \in files : f.path = d.storage_path /\ f.content.readable
           /\ EmbeddingsOf(d.id) =
                 BatchRecords(d.id, StoredChunks(d), Len(StoredChunks(d)))

C12_StatusInvariant ==
    variant = "gemini"
        => \A d \in documents :
              /\ d.status \in {"uploaded", "processed"}
              /\ ProcessedHasRecords(d)

\* over one step: every document record is kept, its status is the same or
\* goes from "uploaded" to "processed", and a record created by the step
\* that is already "processed" has its batch committed
C12_StatusStep ==
    variant = "gemini"
        => /\ \A d \in documents :
                 \E e \in documents' :
                    /\ e.id = d.id
                    /\ e.storage_path = d.storage_path
                    /\ \/ e.status = d.status
                       \/ d.status = "uploaded" /\ e.status = "processed"
           /\ \A e \in documents' :
                 (e \notin documents /\ e.status = "processed")
                    => {"embedding", "status"} \subseteq last'.wrote
                       \/ (last'.chunked /\ last'.emb = 0)

\* C12: in gemini_version a document's status starts as "uploaded" and
\* only ever goes from "uploaded" to "processed", after the batch with the
\* records of all its chunks is committed; a "processed" document has one
\* embedding record per chunk, and a document record is never deleted.
C12_StatusOnlyAfterCommit ==
    [] C12_StatusInvariant /\ [][C12_StatusStep]_vars

\* C12 witness: a processed document with its six records beside a
\* document whose embedding failed and whose status is still "uploaded"
C12_Witness ==
    /\ variant = "gemini"
    /\ \E d \in documents :
          /\ d.status = "processed"
          /\ Cardinality(EmbeddingsOf(d.id)) = 6
    /\ \E d \in documents :
          /\ d.status = "uploaded"
          /\ EmbeddingsOf(d.id) = {}
    /\ IsUpload /\ last.failed = "embed"

====
